---- MODULE Spec2Model ----
(***************************************************************************)
(* Scoring engine of the postpartum preeclampsia risk calculator           *)
(* (PostPartumPreeclampsiaCalculator.py).                                  *)
(*                                                                         *)
(* Python floats are modelled as exact decimals: a record                  *)
(*   [d |-> limbs, f |-> n]                                                *)
(* whose value is (sum of d[i] * Base^(i-1)) / Base^n, with limbs in       *)
(* 0..Base-1, least significant first, kept canonical (no zero limb at the *)
(* top, no zero limb at the bottom while f > 0).  Every float constant of  *)
(* the program is a short decimal, so products and powers are computed     *)
(* without rounding; the IEEE double the program holds differs from the    *)
(* exact value by a relative error below 2^-52 per operation, far less     *)
(* than the distance of any reachable value from a threshold it is         *)
(* compared with.                                                          *)
(***************************************************************************)
EXTENDS Integers, Sequences, FiniteSets, TLC

Base == 10 ^ 4

\* ---------------------------------------------------------------------
\* Exact decimal arithmetic (the float operations the helpers use)
\* ---------------------------------------------------------------------
RECURSIVE StripHigh(_)
StripHigh(s) ==
    IF s = <<>> THEN s
    ELSE IF s[Len(s)] = 0 THEN StripHigh(SubSeq(s, 1, Len(s) - 1))
    ELSE s

RECURSIVE StripLow(_)
StripLow(x) ==
    IF x.f > 0 /\ x.d # <<>> /\ x.d[1] = 0
    THEN StripLow([d |-> Tail(x.d), f |-> x.f - 1])
    ELSE x

Canon(x) ==
    LET h == StripHigh(x.d)
    IN  IF h = <<>> THEN [d |-> <<>>, f |-> 0]
        ELSE StripLow([d |-> h, f |-> x.f])

FloatOfInt(n) == Canon([d |-> <<n % Base, n \div Base>>, f |-> 0])

\* n / Base as a float (n a natural number)
FloatOfFrac(n) == Canon([d |-> <<n % Base, n \div Base>>, f |-> 1])

Zeros(n) == [i \in 1..n |-> 0]

\* the limbs of x with exactly f fractional limbs (f >= x.f)
Shifted(x, f) == Zeros(f - x.f) \o x.d

Limb(s, i) == IF i >= 1 /\ i <= Len(s) THEN s[i] ELSE 0

RECURSIVE LimbsLess(_, _, _)
LimbsLess(a, b, i) ==
    IF i = 0 THEN FALSE
    ELSE IF Limb(a, i) # Limb(b, i) THEN Limb(a, i) < Limb(b, i)
    ELSE LimbsLess(a, b, i - 1)

\* x < y
FLess(x, y) ==
    LET f == IF x.f > y.f THEN x.f ELSE y.f
        a == Shifted(x, f)
        b == Shifted(y, f)
        n == IF Len(a) > Len(b) THEN Len(a) ELSE Len(b)
    IN  LimbsLess(a, b, n)

FLeq(x, y) == ~FLess(y, x)

Joined(left, right) == [d |-> left.d \o right.d, c |-> right.c]

RECURSIVE Carry(_, _, _, _)
\* the limbs lo..hi of raw brought below Base, with the carry c entering at
\* limb lo: [d |-> the limbs, c |-> the carry leaving limb hi]
Carry(raw, lo, hi, c) ==
    IF lo = hi
    THEN [d |-> <<(raw[lo] + c) % Base>>, c |-> (raw[lo] + c) \div Base]
    ELSE LET Upper(left) == Joined(left, Carry(raw, (lo + hi) \div 2 + 1, hi, left.c))
         IN  Upper(Carry(raw, lo, (lo + hi) \div 2, c))

RECURSIVE Conv(_, _, _, _)
\* sum over j in 1..n of short[j] * long[k + 1 - j]
Conv(long, short, k, j) ==
    IF j = 0 THEN 0
    ELSE short[j] * Limb(long, k + 1 - j) + Conv(long, short, k, j - 1)

\* x * y, where y has at most 21 limbs (each raw limb stays below 2^31)
FMul(x, y) ==
    IF x.d = <<>> \/ y.d = <<>> THEN [d |-> <<>>, f |-> 0]
    ELSE LET n   == Len(x.d) + Len(y.d) - 1
             raw == [k \in 1..n |-> Conv(x.d, y.d, k, Len(y.d))]
             sum == Carry(raw, 1, n, 0)
         IN  Canon([d |-> Append(sum.d, sum.c), f |-> x.f + y.f])

FMin(x, y) == IF FLess(y, x) THEN y ELSE x

RECURSIVE FPow(_, _)
\* x ** n for an integer n >= 0; x ** 0 is 1.0 exactly
FPow(x, n) == IF n = 0 THEN FloatOfInt(1) ELSE FMul(FPow(x, n - 1), x)

\* ---------------------------------------------------------------------
\* Constants / Model
\* ---------------------------------------------------------------------
PER_POINT_MULTIPLIER == [d |-> <<3684, 5490, 8973, 3162, 1>>, f |-> 4]
MAX_ABS_RISK == FloatOfFrac(9500)

HTN_LEVELS ==
    << <<"None", 0, "No chronic/gestational HTN, no edema/proteinuria codes">>,
       <<"Chronic HTN (I10)", 2, "Essential primary hypertension">>,
       <<"Gestational edema/proteinuria (O12)", 3,
         "Pregnancy-induced edema/proteinuria without HTN">>,
       <<"Gestational HTN (O13) or Unspecified HTN (O16)", 4,
         "Pregnancy-induced HTN or unspecified maternal HTN">> >>

DOMAINS ==
    << <<"Renal: CKD (N18)", 2, "Chronic kidney disease">>,
       <<"Multiple gestation (O30)", 2, "Any multiple gestation">>,
       <<"Placental pathology (O43/O45)", 1, "Placental disorders and/or abruption">>,
       <<"Metabolic: Obesity (E66)", 1, "Overweight/obesity">>,
       <<"Metabolic: Diabetes in pregnancy (O24)", 1, "GDM/diabetes in pregnancy">>,
       <<"Autoimmune: SLE (M32)", 1, "Systemic lupus erythematosus">>,
       <<"Genetic screen abnormal (O28.5)", 1,
         "Abnormal chromosomal/genetic maternal screening">>,
       <<"Demographics: Black / African American", 1, "Self-identified race">>,
       <<"Demographics: Hispanic / Latino", 1, "Self-identified ethnicity">> >>

CARE_PROCESS ==
    << <<"Cesarean w/o indication (O82)", 2,
         "Prediction use only; downstream of risk & decisions">>,
       <<"Supervision of high-risk pregnancy (O09)", 1,
         "Prediction use only; care labeling">> >>

\* the module namespace the helpers read their tables and constants from
ModuleGlobals ==
    [ PER_POINT_MULTIPLIER |-> PER_POINT_MULTIPLIER,
      MAX_ABS_RISK         |-> MAX_ABS_RISK,
      HTN_LEVELS           |-> HTN_LEVELS,
      DOMAINS              |-> DOMAINS,
      CARE_PROCESS         |-> CARE_PROCESS ]

\* ---------------------------------------------------------------------
\* Python dict: a sequence of <<key, value>> pairs in insertion order
\* ---------------------------------------------------------------------
DictHas(dict, key) == \E i \in 1..Len(dict) : dict[i][1] = key

\* dict.get(key, default)
DictGet(dict, key, default) ==
    IF DictHas(dict, key)
    THEN dict[CHOOSE i \in 1..Len(dict) : dict[i][1] = key][2]
    ELSE default

\* dict[key] = value: in place when the key exists, appended otherwise
DictSet(dict, key, value) ==
    IF DictHas(dict, key)
    THEN [i \in 1..Len(dict) |->
             IF dict[i][1] = key THEN <<key, value>> ELSE dict[i]]
    ELSE Append(dict, <<key, value>>)

RECURSIVE DictOfTable(_, _, _)
\* {name: pts for (name, pts, _hint) in table}
DictOfTable(table, i, acc) ==
    IF i > Len(table) THEN acc
    ELSE DictOfTable(table, i + 1, DictSet(acc, table[i][1], table[i][2]))

\* ---------------------------------------------------------------------
\* Helpers
\* ---------------------------------------------------------------------
\* PER_POINT_MULTIPLIER * points
rr_from_points_linear(g, pts) == FMul(FloatOfInt(pts), g.PER_POINT_MULTIPLIER)

rr_from_points(g, pts) == FPow(g.PER_POINT_MULTIPLIER, pts)

\* the cap left out
absolute_risk_nocap(g, r, baseline) == FMul(r, baseline)

\* max in place of min
absolute_risk_max(g, r, baseline) ==
    LET p == FMul(r, baseline)
    IN  IF FLess(p, g.MAX_ABS_RISK) THEN g.MAX_ABS_RISK ELSE p

absolute_risk(g, r, baseline) == FMin(FMul(r, baseline), g.MAX_ABS_RISK)

\* <= in place of <
risk_bucket_closed(r) ==
    IF FLeq(r, FloatOfInt(2)) THEN "Low"
    ELSE IF FLeq(r, FloatOfInt(4)) THEN "Moderate"
    ELSE IF FLeq(r, FloatOfInt(6)) THEN "High"
    ELSE "Very high"

risk_bucket(r) ==
    IF FLess(r, FloatOfInt(2)) THEN "Low"
    ELSE IF FLess(r, FloatOfInt(4)) THEN "Moderate"
    ELSE IF FLess(r, FloatOfInt(6)) THEN "High"
    ELSE "Very high"

RECURSIVE SumUpTo(_, _, _, _)
SumUpTo(table, label, i, acc) ==
    IF i > Len(table) THEN 0
    ELSE IF table[i][1] = label THEN acc + table[i][2]
    ELSE SumUpTo(table, label, i + 1, acc + table[i][2])

\* the levels up to the selected one added up
get_htn_points_additive(g, selected_label) ==
    SumUpTo(g.HTN_LEVELS, selected_label, 1, 0)

get_htn_points(g, selected_label) ==
    LET mapping == DictOfTable(g.HTN_LEVELS, 1, <<>>)
    IN  DictGet(mapping, selected_label, 0)

CueModest == "Risk elevation is modest; routine postpartum BP checks may suffice per local protocol."
CueMeaningful == "Meaningful elevation; consider earlier follow-up (<=7 days) and symptom review."
CueSubstantial == "Substantial elevation; aligns with empiric higher-risk zone (~4-5x baseline)."
CueVerySubstantial == "Very substantial elevation; emphasize reliable follow-up, low threshold for evaluation."

\* the action cue taken from the bucket instead of the points
interpret_points_rr_by_bucket(pts, r, abs) ==
    LET b == risk_bucket(r)
        cue == IF b = "Low" THEN CueModest
               ELSE IF b = "Moderate" THEN CueMeaningful
               ELSE IF b = "High" THEN CueSubstantial
               ELSE CueVerySubstantial
    IN  [bucket |-> b, msg |-> [category |-> b, score |-> pts, cue |-> cue]]

\* returns (bucket, msg); of msg the model keeps the category, the score and
\* the action cue (the two formatted numbers are presentation)
interpret_points_rr(pts, r, abs) ==
    LET b == risk_bucket(r)
        cue == IF pts <= 2 THEN CueModest
               ELSE IF pts <= 4 THEN CueMeaningful
               ELSE IF pts <= 6 THEN CueSubstantial
               ELSE CueVerySubstantial
    IN  [bucket |-> b, msg |-> [category |-> b, score |-> pts, cue |-> cue]]

\* ---------------------------------------------------------------------
\* Calculation
\* ---------------------------------------------------------------------
RECURSIVE ScanTable(_, _, _, _)
\* for name, pts, _ in table: if flags.get(name, False): total += pts; ...
ScanTable(table, flagsArg, i, acc) ==
    IF i > Len(table) THEN acc
    ELSE IF DictGet(flagsArg, table[i][1], FALSE)
         THEN ScanTable(table, flagsArg, i + 1,
                  [ total          |-> acc.total + table[i][2],
                    breakdown      |-> Append(acc.breakdown, <<table[i][1], table[i][2]>>),
                    selected_names |-> Append(acc.selected_names, table[i][1]) ])
         ELSE ScanTable(table, flagsArg, i + 1, acc)

PointsIn(table, name) == DictGet(DictOfTable(table, 1, <<>>), name, 0)

RECURSIVE ScanFlags(_, _, _, _)
\* the loop turned inside out: for name, on in flags.items(): if on and name in table
ScanFlags(table, flagsArg, i, acc) ==
    IF i > Len(flagsArg) THEN acc
    ELSE IF flagsArg[i][2] /\ DictHas(DictOfTable(table, 1, <<>>), flagsArg[i][1])
         THEN ScanFlags(table, flagsArg, i + 1,
                  [ total          |-> acc.total + PointsIn(table, flagsArg[i][1]),
                    breakdown      |-> Append(acc.breakdown,
                                         <<flagsArg[i][1], PointsIn(table, flagsArg[i][1])>>),
                    selected_names |-> Append(acc.selected_names, flagsArg[i][1]) ])
         ELSE ScanFlags(table, flagsArg, i + 1, acc)

Start(htn_pts, total) ==
    [ total          |-> total,
      breakdown      |-> << <<"Hypertensive disorders", htn_pts>> >>,
      selected_names |-> <<>> ]

Returned(acc, flagsArg) ==
    [ total |-> acc.total, breakdown |-> acc.breakdown,
      selected_names |-> acc.selected_names, flags |-> flagsArg ]

\* total = 0 instead of total = htn_pts
compute_points_total0(g, selected_htn, flagsArg, include) ==
    LET htn_pts == get_htn_points(g, selected_htn)
        a1 == ScanTable(g.DOMAINS, flagsArg, 1, Start(htn_pts, 0))
        a2 == IF include THEN ScanTable(g.CARE_PROCESS, flagsArg, 1, a1) ELSE a1
    IN  Returned(a2, flagsArg)

\* the care-process loop not guarded by include_care
compute_points_ungated(g, selected_htn, flagsArg, include) ==
    LET htn_pts == get_htn_points(g, selected_htn)
        a1 == ScanTable(g.DOMAINS, flagsArg, 1, Start(htn_pts, htn_pts))
        a2 == ScanTable(g.CARE_PROCESS, flagsArg, 1, a1)
    IN  Returned(a2, flagsArg)

\* both loops over the flags mapping instead of over the tables
compute_points_flag_order(g, selected_htn, flagsArg, include) ==
    LET htn_pts == get_htn_points(g, selected_htn)
        a1 == ScanFlags(g.DOMAINS, flagsArg, 1, Start(htn_pts, htn_pts))
        a2 == IF include THEN ScanFlags(g.CARE_PROCESS, flagsArg, 1, a1) ELSE a1
    IN  Returned(a2, flagsArg)

\* flags.pop(name, False) instead of flags.get(name, False)
compute_points_pop(g, selected_htn, flagsArg, include) ==
    LET htn_pts == get_htn_points(g, selected_htn)
        a1 == ScanTable(g.DOMAINS, flagsArg, 1, Start(htn_pts, htn_pts))
        a2 == IF include THEN ScanTable(g.CARE_PROCESS, flagsArg, 1, a1) ELSE a1
        scanned == {g.DOMAINS[i][1] : i \in 1..Len(g.DOMAINS)} \cup
                   (IF include
                    THEN {g.CARE_PROCESS[i][1] : i \in 1..Len(g.CARE_PROCESS)}
                    ELSE {})
    IN  Returned(a2, SelectSeq(flagsArg, LAMBDA e : e[1] \notin scanned))

\* returns (total, breakdown, selected_names); the last field is the flags
\* mapping as the call leaves it
compute_points(g, selected_htn, flagsArg, include) ==
    LET htn_pts == get_htn_points(g, selected_htn)
        a1 == ScanTable(g.DOMAINS, flagsArg, 1, Start(htn_pts, htn_pts))
        a2 == IF include THEN ScanTable(g.CARE_PROCESS, flagsArg, 1, a1) ELSE a1
    IN  Returned(a2, flagsArg)

\* baseline_risk = baseline_risk_pct / 100.0, the percentage held in tenths
BaselineOfPct(tenths) == FloatOfFrac(tenths * 10)

\* the body of "if submitted:", up to the values the page then renders
Calculation(g, htn, flagsArg, include, baseline) ==
    LET cp   == compute_points(g, htn, flagsArg, include)
        r    == rr_from_points(g, cp.total)
        a    == absolute_risk(g, r, baseline)
        intp == interpret_points_rr(cp.total, r, a)
    IN  [ points |-> cp.total, breakdown |-> cp.breakdown,
          selected_names |-> cp.selected_names, flags |-> cp.flags,
          rr |-> r, abs_risk |-> a, bucket |-> intp.bucket, interp |-> intp.msg ]

\* ---------------------------------------------------------------------
\* State
\* ---------------------------------------------------------------------
VARIABLES
    globals,            \* the module-level tables and constants
    baseline_risk_pct,  \* sidebar number input, in tenths of a percent
    baseline_risk,      \* baseline_risk_pct / 100.0
    include_care,       \* sidebar toggle
    htn_label,          \* the radio's label
    flags,              \* Dict[str, bool]
    pc,                 \* "input", or the code that ran last
    points, breakdown, selected_names, rr, abs_risk, bucket, interp

inputs  == <<baseline_risk_pct, baseline_risk, include_care, htn_label, flags>>
outputs == <<points, breakdown, selected_names, rr, abs_risk, bucket, interp>>
vars    == <<globals, inputs, pc, outputs>>

FZero == [d |-> <<>>, f |-> 0]
NoMsg == [category |-> "", score |-> -1, cue |-> ""]

\* names not bound in the current run
NoOutputs ==
    /\ points = -1 /\ breakdown = <<>> /\ selected_names = <<>>
    /\ rr = FZero /\ abs_risk = FZero /\ bucket = "" /\ interp = NoMsg

Names(table) == {table[i][1] : i \in 1..Len(table)}

RECURSIVE AllFalse(_, _, _)
\* for name, pts, hint in table: flags[name] = <unticked checkbox>
AllFalse(table, i, acc) ==
    IF i > Len(table) THEN acc
    ELSE AllFalse(table, i + 1, DictSet(acc, table[i][1], FALSE))

\* Baselines the sidebar's number input yields, in tenths of a percent:
\* min_value=0.1, value=3.8, max_value=20.0
SidebarPcts == {1, 38, 200}
DefaultPct == 38

\* Baselines a caller of the helpers passes, in tenths of a percent: those of
\* the sidebar, and 95.0 and 100.0, which the number input refuses; the
\* helpers check no range, and a baseline fraction is any value in (0, 1].
BaselinePcts == SidebarPcts \cup {950, 1000}

InitCommon ==
    /\ globals = ModuleGlobals
    /\ baseline_risk_pct = DefaultPct
    /\ baseline_risk = BaselineOfPct(DefaultPct)
    /\ include_care = FALSE
    /\ htn_label = HTN_LEVELS[1][1]
    /\ pc = "input"
    /\ NoOutputs

Cleared ==
    /\ pc' = "input"
    /\ points' = -1 /\ breakdown' = <<>> /\ selected_names' = <<>>
    /\ rr' = FZero /\ abs_risk' = FZero /\ bucket' = "" /\ interp' = NoMsg

\* ---------------------------------------------------------------------
\* Spec: the page.  The form's flags are rebuilt on every run from the
\* checkboxes, in table order; the care-process boxes exist only while the
\* toggle is on.
\* ---------------------------------------------------------------------
MaxTicked == 2

Ticked(dict) == Cardinality({i \in 1..Len(dict) : dict[i][2]})

Init ==
    /\ InitCommon
    /\ flags = AllFalse(DOMAINS, 1, <<>>)

SetBaseline(t) ==
    /\ t # baseline_risk_pct
    /\ baseline_risk_pct' = t
    /\ baseline_risk' = BaselineOfPct(t)
    /\ Cleared
    /\ UNCHANGED <<globals, include_care, htn_label, flags>>

ToggleCare ==
    /\ include_care' = ~include_care
    /\ flags' = IF include_care
                THEN SelectSeq(flags, LAMBDA e : e[1] \notin Names(globals.CARE_PROCESS))
                ELSE AllFalse(globals.CARE_PROCESS, 1, flags)
    /\ Cleared
    /\ UNCHANGED <<globals, baseline_risk_pct, baseline_risk, htn_label>>

Radio(label) ==
    /\ label # htn_label
    /\ htn_label' = label
    /\ Cleared
    /\ UNCHANGED <<globals, baseline_risk_pct, baseline_risk, include_care, flags>>

Checkbox(name) ==
    /\ DictHas(flags, name)
    /\ DictGet(flags, name, FALSE) \/ Ticked(flags) < MaxTicked
    /\ flags' = DictSet(flags, name, ~DictGet(flags, name, FALSE))
    /\ Cleared
    /\ UNCHANGED <<globals, baseline_risk_pct, baseline_risk, include_care, htn_label>>

Submit ==
    /\ pc = "input"
    /\ LET res == Calculation(globals, htn_label, flags, include_care, baseline_risk)
       IN  /\ points' = res.points
           /\ breakdown' = res.breakdown
           /\ selected_names' = res.selected_names
           /\ flags' = res.flags
           /\ rr' = res.rr
           /\ abs_risk' = res.abs_risk
           /\ bucket' = res.bucket
           /\ interp' = res.interp
    /\ pc' = "submitted"
    /\ UNCHANGED <<globals, baseline_risk_pct, baseline_risk, include_care, htn_label>>

Next ==
    \/ \E t \in SidebarPcts : SetBaseline(t)
    \/ ToggleCare
    \/ \E label \in Names(HTN_LEVELS) : Radio(label)
    \/ \E name \in Names(DOMAINS) \cup Names(CARE_PROCESS) : Checkbox(name)
    \/ Submit

Spec == Init /\ [][Next]_vars

\* ---------------------------------------------------------------------
\* SpecPoints: compute_points called by any caller, with any label, any
\* flags mapping of up to MaxKeys keys filled in any order, either toggle.
\* ---------------------------------------------------------------------
MaxKeys == 2

UnknownLabel == "Preeclampsia (O14)"
HtnInputs == Names(HTN_LEVELS) \cup {UnknownLabel}

InitPoints ==
    /\ InitCommon
    /\ flags = <<>>

SetFlag(name, value) ==
    /\ DictHas(flags, name) \/ Len(flags) < MaxKeys
    /\ flags' = DictSet(flags, name, value)
    /\ flags' # flags
    /\ Cleared
    /\ UNCHANGED <<globals, baseline_risk_pct, baseline_risk, include_care, htn_label>>

SetHtn(label) ==
    /\ label # htn_label
    /\ htn_label' = label
    /\ Cleared
    /\ UNCHANGED <<globals, baseline_risk_pct, baseline_risk, include_care, flags>>

SetIncludeCare ==
    /\ include_care' = ~include_care
    /\ Cleared
    /\ UNCHANGED <<globals, baseline_risk_pct, baseline_risk, htn_label, flags>>

CallComputePoints ==
    /\ pc = "input"
    /\ LET res == compute_points(globals, htn_label, flags, include_care)
       IN  /\ points' = res.total
           /\ breakdown' = res.breakdown
           /\ selected_names' = res.selected_names
           /\ flags' = res.flags
    /\ pc' = "compute_points"
    /\ UNCHANGED <<globals, baseline_risk_pct, baseline_risk, include_care, htn_label,
                   rr, abs_risk, bucket, interp>>

NextPoints ==
    \/ \E name \in Names(DOMAINS) \cup Names(CARE_PROCESS), value \in BOOLEAN :
          SetFlag(name, value)
    \/ \E label \in HtnInputs : SetHtn(label)
    \/ SetIncludeCare
    \/ CallComputePoints

SpecPoints == InitPoints /\ [][NextPoints]_vars

\* ---------------------------------------------------------------------
\* SpecBucket: risk_bucket called with any relative risk k / 100
\* ---------------------------------------------------------------------
MaxRr == 700

InitBucket ==
    /\ globals = ModuleGlobals
    /\ baseline_risk_pct = DefaultPct
    /\ baseline_risk = BaselineOfPct(DefaultPct)
    /\ include_care = FALSE
    /\ htn_label = HTN_LEVELS[1][1]
    /\ flags = <<>>
    /\ pc = "input"
    /\ points = -1 /\ breakdown = <<>> /\ selected_names = <<>>
    /\ \E k \in 0..MaxRr : rr = FloatOfFrac(100 * k)
    /\ abs_risk = FZero /\ bucket = "" /\ interp = NoMsg

CallRiskBucket ==
    /\ pc = "input"
    /\ bucket' = risk_bucket(rr)
    /\ pc' = "risk_bucket"
    /\ UNCHANGED <<globals, inputs, points, breakdown, selected_names, rr, abs_risk, interp>>

NextBucket == CallRiskBucket

SpecBucket == InitBucket /\ [][NextBucket]_vars

\* ---------------------------------------------------------------------
\* SpecHelpers: the helpers of the calculation called in its order by any
\* caller, with any baseline: rr_from_points, absolute_risk,
\* interpret_points_rr, either on the total compute_points returns for a
\* level with no flag set, or on any total compute_points can return.
\* ---------------------------------------------------------------------
RECURSIVE TableSum(_)
TableSum(table) == IF table = <<>> THEN 0 ELSE Head(table)[2] + TableSum(Tail(table))

\* the largest total: the highest level and every entry of both tables
MaxTotal == HTN_LEVELS[Len(HTN_LEVELS)][2] + TableSum(DOMAINS) + TableSum(CARE_PROCESS)

InitHelpers ==
    /\ globals = ModuleGlobals
    /\ \E t \in BaselinePcts :
          /\ baseline_risk_pct = t
          /\ baseline_risk = BaselineOfPct(t)
    /\ include_care = FALSE
    /\ htn_label \in Names(HTN_LEVELS)
    /\ flags = <<>>
    /\ pc = "input"
    /\ points \in 0..MaxTotal
    /\ breakdown = <<>> /\ selected_names = <<>>
    /\ rr = FZero /\ abs_risk = FZero /\ bucket = "" /\ interp = NoMsg

CallRrFromPoints ==
    /\ pc \in {"input", "compute_points"}
    /\ rr' = rr_from_points(globals, points)
    /\ pc' = "rr_from_points"
    /\ UNCHANGED <<globals, inputs, points, breakdown, selected_names, abs_risk, bucket, interp>>

CallAbsoluteRisk ==
    /\ pc = "rr_from_points"
    /\ abs_risk' = absolute_risk(globals, rr, baseline_risk)
    /\ pc' = "absolute_risk"
    /\ UNCHANGED <<globals, inputs, points, breakdown, selected_names, rr, bucket, interp>>

CallInterpret ==
    /\ pc = "absolute_risk"
    /\ LET res == interpret_points_rr(points, rr, abs_risk)
       IN  /\ bucket' = res.bucket
           /\ interp' = res.msg
    /\ pc' = "interpret_points_rr"
    /\ UNCHANGED <<globals, inputs, points, breakdown, selected_names, rr, abs_risk>>

NextHelpers ==
    \/ CallComputePoints
    \/ CallRrFromPoints
    \/ CallAbsoluteRisk
    \/ CallInterpret

SpecHelpers == InitHelpers /\ [][NextHelpers]_vars

\* ---------------------------------------------------------------------
\* Properties
\* ---------------------------------------------------------------------
One == [d |-> <<1>>, f |-> 0]
Cap == [d |-> <<9500>>, f |-> 1]

AllNames == Names(DOMAINS) \cup Names(CARE_PROCESS)

\* the names whose flag is set in the flags mapping
Flagged == {n \in AllNames : \E i \in 1..Len(flags) : flags[i] = <<n, TRUE>>}

\* the names compute_points has to count
Counted ==
    Flagged \cap (Names(DOMAINS) \cup (IF include_care THEN Names(CARE_PROCESS) ELSE {}))

\* the fixed points of a hypertensive level, 0 for any other label
HtnWeight(label) ==
    CASE label = "None" -> 0
      [] label = "Chronic HTN (I10)" -> 2
      [] label = "Gestational edema/proteinuria (O12)" -> 3
      [] label = "Gestational HTN (O13) or Unspecified HTN (O16)" -> 4
      [] OTHER -> 0

TableOrder == DOMAINS \o CARE_PROCESS

Rank(name) == CHOOSE i \in 1..Len(TableOrder) : TableOrder[i][1] = name

Weight(name) == TableOrder[Rank(name)][2]

RECURSIVE SumOver(_)
SumOver(S) ==
    IF S = {} THEN 0
    ELSE LET n == CHOOSE m \in S : TRUE IN Weight(n) + SumOver(S \ {n})

RECURSIVE SumPoints(_)
SumPoints(pairs) ==
    IF pairs = <<>> THEN 0 ELSE Head(pairs)[2] + SumPoints(Tail(pairs))

\* C1: the total returned by compute_points is the points of the chosen
\* hypertensive level, plus the points of every flagged Domains entry, plus
\* (only when include_care is true) the points of every flagged CareProcess
\* entry; and it is the sum of the points of the returned breakdown.
C1_TotalIsSum ==
    pc = "compute_points" =>
        /\ points = HtnWeight(htn_label)
                    + SumOver(Flagged \cap Names(DOMAINS))
                    + (IF include_care THEN SumOver(Flagged \cap Names(CARE_PROCESS)) ELSE 0)
        /\ points = SumPoints(breakdown)

C1_Witness ==
    /\ pc = "compute_points"
    /\ include_care
    /\ HtnWeight(htn_label) > 0
    /\ Flagged \cap Names(DOMAINS) # {}
    /\ Flagged \cap Names(CARE_PROCESS) # {}

\* C2: with include_care false the result of compute_points (total,
\* breakdown, selected names) is the one obtained from the same flags with
\* every CareProcess key removed, and no CareProcess entry is in the breakdown.
C2_CareGating ==
    (pc = "compute_points" /\ ~include_care) =>
        LET bare == SelectSeq(flags, LAMBDA e : e[1] \notin Names(CARE_PROCESS))
            ref  == compute_points(ModuleGlobals, htn_label, bare, FALSE)
        IN  /\ points = ref.total
            /\ breakdown = ref.breakdown
            /\ selected_names = ref.selected_names
            /\ \A i \in 1..Len(breakdown) : breakdown[i][1] \notin Names(CARE_PROCESS)
            /\ \A i \in 1..Len(selected_names) : selected_names[i] \notin Names(CARE_PROCESS)

C2_Witness ==
    /\ pc = "compute_points"
    /\ ~include_care
    /\ Flagged \cap Names(CARE_PROCESS) # {}
    /\ Flagged \cap Names(DOMAINS) # {}

\* C3: get_htn_points returns exactly the level's fixed points (0, 2, 3, 4)
\* and 0 for a label that is not in HTN_LEVELS; the hypertensive contribution
\* to the total is that one value whatever flags are set.
C3_HtnNotAdditive ==
    pc = "compute_points" =>
        /\ get_htn_points(globals, htn_label) = HtnWeight(htn_label)
        /\ breakdown[1] = <<"Hypertensive disorders", HtnWeight(htn_label)>>
        /\ breakdown[1][2] \in {0, 2, 3, 4}
        /\ htn_label \notin Names(HTN_LEVELS) => breakdown[1][2] = 0
        /\ points - SumPoints(Tail(breakdown)) = HtnWeight(htn_label)

C3_Witness ==
    /\ pc = "compute_points"
    /\ htn_label = UnknownLabel
    /\ Flagged # {}
    /\ points > 0

\* C4: the breakdown starts with the one ("Hypertensive disorders", points)
\* entry, followed by the counted entries in table order (Domains before
\* CareProcess), each once with its own points, whatever the order in which
\* the keys were put into the flags mapping.
C4_BreakdownOrder ==
    pc = "compute_points" =>
        /\ Len(breakdown) = 1 + Cardinality(Counted)
        /\ breakdown[1][1] = "Hypertensive disorders"
        /\ {breakdown[i][1] : i \in 2..Len(breakdown)} = Counted
        /\ \A i \in 2..Len(breakdown) : breakdown[i][2] = Weight(breakdown[i][1])
        /\ \A i, j \in 2..Len(breakdown) :
              i < j => Rank(breakdown[i][1]) < Rank(breakdown[j][1])
        /\ \A i, j \in 1..Len(breakdown) :
              i # j => breakdown[i][1] # breakdown[j][1]

\* two counted keys put into the mapping against the table order
C4_Witness ==
    /\ pc = "compute_points"
    /\ Len(breakdown) >= 3
    /\ \E i, j \in 1..Len(flags) :
          /\ i < j
          /\ flags[i][2] /\ flags[j][2]
          /\ flags[i][1] \in Counted /\ flags[j][1] \in Counted
          /\ Rank(flags[j][1]) < Rank(flags[i][1])

\* the whole part of a non-negative float (below Base)
IntPart(x) == Limb(x.d, x.f + 1)

\* C5: absolute_risk returns min(rr * baseline_risk, 0.95) for every reachable
\* total and every baseline in (0, 1]; the result is greater than 0 and never
\* above 0.95.
C5_AbsoluteRiskCapped ==
    pc \in {"absolute_risk", "interpret_points_rr"} =>
        /\ abs_risk = (IF FLess(Cap, FMul(rr, baseline_risk))
                       THEN Cap ELSE FMul(rr, baseline_risk))
        /\ FLess(FZero, abs_risk)
        /\ FLeq(abs_risk, Cap)
        /\ IntPart(abs_risk) = 0

\* a call on which the cap acts
C5_Witness ==
    /\ pc = "absolute_risk"
    /\ baseline_risk_pct = 200
    /\ FLess(Cap, FMul(rr, baseline_risk))
    /\ abs_risk = Cap

\* C6: rr_from_points returns 1.3162897354903684 ** points: exactly 1.0 for
\* 0 points, the value for one point less times the multiplier otherwise,
\* hence strictly increasing and never below 1.0.
C6_RrIsPower ==
    pc \in {"rr_from_points", "absolute_risk", "interpret_points_rr"} =>
        /\ points >= 0
        /\ FLeq(One, rr)
        /\ points = 0 => rr = One
        /\ points > 0 =>
              LET below == FPow(PER_POINT_MULTIPLIER, points - 1)
              IN  /\ rr = FMul(below, PER_POINT_MULTIPLIER)
                  /\ FLess(below, rr)

C6_Witness ==
    /\ pc = "rr_from_points"
    /\ points = MaxTotal
    /\ IntPart(rr) = 140

\* the relative risk in hundredths (for a float that is a multiple of 0.01)
Hundredths(x) == LET s == Shifted(x, 1) IN Limb(s, 2) * 100 + Limb(s, 1) \div 100

\* C7: risk_bucket puts every relative risk into one bucket: below 2 Low,
\* from 2 to below 4 Moderate, from 4 to below 6 High, from 6 Very high;
\* 1.99 is Low, 2.0 Moderate, 3.99 Moderate, 4.0 High, 6.0 Very high.
C7_BucketBoundaries ==
    pc = "risk_bucket" =>
        LET h == Hundredths(rr)
        IN  /\ rr = FloatOfFrac(100 * h)
            /\ bucket \in {"Low", "Moderate", "High", "Very high"}
            /\ bucket = "Low" <=> h < 200
            /\ bucket = "Moderate" <=> (200 <= h /\ h < 400)
            /\ bucket = "High" <=> (400 <= h /\ h < 600)
            /\ bucket = "Very high" <=> 600 <= h
            /\ h = 199 => bucket = "Low"
            /\ h = 200 => bucket = "Moderate"
            /\ h = 399 => bucket = "Moderate"
            /\ h = 400 => bucket = "High"
            /\ h = 600 => bucket = "Very high"

C7_Witness ==
    /\ pc = "risk_bucket"
    /\ Hundredths(rr) = 600
    /\ bucket = "Very high"

\* the calculation done on level "None", no flag set and the toggle off:
\* compute_points has returned its breakdown and the last helper has run
EmptySelection ==
    /\ pc = "interpret_points_rr"
    /\ breakdown # <<>>
    /\ htn_label = "None"
    /\ Flagged = {}
    /\ ~include_care

C10_TierAndBucket ==
    pc = "interpret_points_rr" =>
        /\ interp.cue = CueModest <=> points <= 2
        /\ interp.cue = CueMeaningful <=> (3 <= points /\ points <= 4)
        /\ interp.cue = CueSubstantial <=> (5 <= points /\ points <= 6)
        /\ interp.cue = CueVerySubstantial <=> 7 <= points
        /\ bucket = "Low" <=> IntPart(rr) < 2
        /\ bucket = "Moderate" <=> (2 <= IntPart(rr) /\ IntPart(rr) < 4)
        /\ bucket = "High" <=> (4 <= IntPart(rr) /\ IntPart(rr) < 6)
        /\ bucket = "Very high" <=> 6 <= IntPart(rr)
        /\ interp.category = bucket
        /\ points = 5 => (interp.cue = CueSubstantial /\ bucket = "Moderate")

\* the third tier with the second bucket
C10_Witness ==
    /\ pc = "interpret_points_rr"
    /\ interp.cue = CueSubstantial
    /\ bucket = "Moderate"

====
